---------------------------- MODULE Spec2Model ----------------------------
(***************************************************************************)
(* Model of the Pext launcher module (src/__init__.py): discovery of the   *)
(* launchable entries at init and the launch of a selected entry.          *)
(*                                                                         *)
(* Python strings are sequences of one-character strings, so that the      *)
(* library calls the module relies on (re.sub, str.rstrip, str.endswith,   *)
(* html.escape, shlex.quote, shlex.split, os.path.join, expanduser) are    *)
(* computed character by character.  The alphabet of the modelled inputs   *)
(* holds no backslash, no double quote and no whitespace but the space.    *)
(***************************************************************************)
EXTENDS Integers, Sequences, FiniteSets, TLC

\* Number of selection_made calls the host makes after init.
MaxCalls == 2

\* Length of a directory listing of executables or desktop entries.
MaxListing == 1

\* Length of the listing of /Applications.
MaxBundles == 2

\* Python's None where a string may stand; no string is longer than one
\* character per element, so it equals no string.
None == <<"None">>

-----------------------------------------------------------------------------
(* Strings *)

RECURSIVE Concat(_)
Concat(ss) == IF ss = <<>> THEN <<>> ELSE Head(ss) \o Concat(Tail(ss))

\* str.endswith
EndsWith(s, suffix) ==
  /\ Len(s) >= Len(suffix)
  /\ SubSeq(s, Len(s) - Len(suffix) + 1, Len(s)) = suffix

\* str.rstrip(chars): drops every trailing character that is in chars.
RECURSIVE RStrip(_, _)
RStrip(s, chars) ==
  IF s # <<>> /\ s[Len(s)] \in chars THEN RStrip(SubSeq(s, 1, Len(s) - 1), chars)
  ELSE s

\* Membership in a Python list.
InList(x, list) == \E i \in 1..Len(list) : list[i] = x

\* The regular expression (?<!%)%[codes] matches at position i of s.
FieldCodeAt(s, i, codes) ==
  /\ i < Len(s)
  /\ s[i] = "%"
  /\ s[i + 1] \in codes
  /\ (i = 1 \/ s[i - 1] # "%")

\* re.subn(r'(?<!%)%[codes]', repl, s, count): left to right, matches do not
\* overlap, count = 0 replaces every match.  The result is <<string, n>>.
RECURSIVE SubnFrom(_, _, _, _, _, _, _)
SubnFrom(codes, repl, s, count, i, acc, n) ==
  IF i > Len(s) THEN <<acc, n>>
  ELSE IF (count = 0 \/ n < count) /\ FieldCodeAt(s, i, codes)
       THEN SubnFrom(codes, repl, s, count, i + 2, acc \o repl, n + 1)
       ELSE SubnFrom(codes, repl, s, count, i + 1, Append(acc, s[i]), n)

subn(codes, repl, s, count) == SubnFrom(codes, repl, s, count, 1, <<>>, 0)

\* re.sub(r'(?<!%)%[codes]', repl, s)
sub(codes, repl, s) == subn(codes, repl, s, 0)[1]

\* html.escape(s), quote=True.
EscapeChar(c) ==
  CASE c = "&" -> <<"&", "a", "m", "p", ";">>
    [] c = "<" -> <<"&", "l", "t", ";">>
    [] c = ">" -> <<"&", "g", "t", ";">>
    [] c = "\"" -> <<"&", "q", "u", "o", "t", ";">>
    [] c = "'" -> <<"&", "#", "x", "2", "7", ";">>
    [] OTHER -> <<c>>

html_escape(s) == Concat([i \in 1..Len(s) |-> EscapeChar(s[i])])

\* The characters shlex.quote leaves unquoted: [\w@%+=:,./-].
SafeChars ==
  {"a", "b", "c", "d", "e", "f", "g", "h", "i", "j", "k", "l", "m", "n", "o",
   "p", "q", "r", "s", "t", "u", "v", "w", "x", "y", "z", "A", "P", "U", "F",
   "_", "@", "%", "+", "=", ":", ",", ".", "/", "-"}

\* shlex.quote(s)
shlex_quote(s) ==
  IF s = <<>> THEN <<"'", "'">>
  ELSE IF \A i \in 1..Len(s) : s[i] \in SafeChars THEN s
  ELSE <<"'">>
       \o Concat([i \in 1..Len(s) |->
                    IF s[i] = "'" THEN <<"'", "\"", "'", "\"", "'">> ELSE <<s[i]>>])
       \o <<"'">>

\* The exception a call raised; NoException when it returned.
NoException == "None"
ValueError == "ValueError"
OSError == "OSError"
KeyError == "KeyError"
IndexError == "IndexError"

\* shlex.split(s): POSIX rules, whitespace_split, no comments.  state is " "
\* between tokens, "a" inside a token, or the quote character of an open
\* quotation.  The result is [raised, tokens]; ValueError when a quotation
\* is not closed.
RECURSIVE SplitFrom(_, _, _, _, _)
SplitFrom(s, i, state, token, out) ==
  IF i > Len(s)
  THEN IF state \in {"'", "\""} THEN [raised |-> ValueError, tokens |-> <<>>]
       ELSE IF state = "a" THEN [raised |-> NoException, tokens |-> Append(out, token)]
       ELSE [raised |-> NoException, tokens |-> out]
  ELSE LET c == s[i] IN
       IF state \in {"'", "\""}
       THEN IF c = state THEN SplitFrom(s, i + 1, "a", token, out)
            ELSE SplitFrom(s, i + 1, state, Append(token, c), out)
       ELSE IF c = " "
            THEN IF state = "a" THEN SplitFrom(s, i + 1, " ", <<>>, Append(out, token))
                 ELSE SplitFrom(s, i + 1, " ", <<>>, out)
            ELSE IF c \in {"'", "\""} THEN SplitFrom(s, i + 1, c, token, out)
            ELSE SplitFrom(s, i + 1, "a", Append(token, c), out)

shlex_split(s) == SplitFrom(s, 1, " ", <<>>, <<>>)

\* os.path.join(a, b) for a relative b.
join(a, b) ==
  IF a = <<>> \/ a[Len(a)] = "/" THEN a \o b ELSE a \o <<"/">> \o b

\* The home directory expanduser substitutes for a leading "~".
HOME == <<"/", "h">>

\* os.path.expanduser(path)
expanduser(path) ==
  IF path # <<>> /\ path[1] = "~" /\ (Len(path) = 1 \/ path[2] = "/")
  THEN HOME \o SubSeq(path, 2, Len(path))
  ELSE path

\* list.sort() of a list of strings: lexicographic order on code points.
Ord(c) ==
  CASE c = "." -> 46 [] c = "A" -> 65 [] c = "C" -> 67 [] c = "P" -> 80
    [] c = "a" -> 97 [] c = "e" -> 101 [] c = "i" -> 105 [] c = "l" -> 108
    [] c = "p" -> 112 [] c = "s" -> 115 [] c = "t" -> 116 [] c = "v" -> 118
    [] c = "x" -> 120 [] OTHER -> 0

RECURSIVE StrLess(_, _)
StrLess(a, b) ==
  IF b = <<>> THEN FALSE
  ELSE IF a = <<>> THEN TRUE
  ELSE IF a[1] # b[1] THEN Ord(a[1]) < Ord(b[1])
  ELSE StrLess(Tail(a), Tail(b))

RECURSIVE Insert(_, _)
Insert(x, sorted) ==
  IF sorted = <<>> THEN <<x>>
  ELSE IF StrLess(x, Head(sorted)) THEN <<x>> \o sorted
  ELSE <<Head(sorted)>> \o Insert(x, Tail(sorted))

RECURSIVE Sorted(_)
Sorted(list) ==
  IF list = <<>> THEN <<>> ELSE Insert(list[Len(list)], Sorted(SubSeq(list, 1, Len(list) - 1)))

-----------------------------------------------------------------------------
(* The operating system the module runs on *)

\* platform.system()
Systems == {"Darwin", "Linux", "Windows", "FreeBSD"}

ls == <<"l", "s">>
vi_exe == <<"v", "i", ".", "e", "x", "e">>
lib == <<"l", "i", "b">>

\* os.path.isfile(fullname): lib is a directory.
isfile(fullname) ==
  \E n \in {ls, vi_exe} : EndsWith(fullname, <<"/">> \o n)

\* os.access(fullname, X_OK): vi.exe carries no execute permission.
access_X_OK(fullname) ==
  \E n \in {ls, lib} : EndsWith(fullname, <<"/">> \o n)

Pap_app == <<"P", "a", "p", ".", "a", "p", "p">>
Papa_app == <<"P", "a", "p", "a", ".", "a", "p", "p">>
a_txt == <<"a", ".", "t", "x", "t">>

a_desktop == <<"a", ".", "d", "e", "s", "k", "t", "o", "p">>
c_desktop == <<"c", ".", "d", "e", "s", "k", "t", "o", "p">>
k_desktop == <<"k", ".", "d", "e", "s", "k", "t", "o", "p">>

App == <<"A", "p", "p">>

\* Exec=app.bin %f %u
Exec_a == <<"a", "p", "p", ".", "b", "i", "n", " ", "%", "f", " ", "%", "u">>

\* Exec=run %%f %i
Exec_c == <<"r", "u", "n", " ", "%", "%", "f", " ", "%", "i">>

\* What configparser reads from a desktop entry file: the keys of its
\* [Desktop Entry] section.  k.desktop has a section without an Exec key.
DesktopEntry(path) ==
  IF EndsWith(path, <<"/">> \o a_desktop) THEN [Name |-> App, Exec |-> Exec_a]
  ELSE IF EndsWith(path, <<"/">> \o c_desktop) THEN [Name |-> App, Exec |-> Exec_c]
  ELSE [Name |-> App]

dir_b == <<"/", "b">>
dir_tilde == <<"~">>
dir_h == HOME
dir_Applications == <<"/", "A", "p", "p", "l", "i", "c", "a", "t", "i", "o", "n", "s">>
applications == <<"a", "p", "p", "l", "i", "c", "a", "t", "i", "o", "n", "s">>
usr_share == <<"/", "u", "s", "r", "/", "s", "h", "a", "r", "e">>
usr_local_share ==
  <<"/", "u", "s", "r", "/", "l", "o", "c", "a", "l", "/", "s", "h", "a", "r", "e">>

\* Sequences without repetition, of length at most n, over the set S.
RECURSIVE Listings(_, _)
Listings(S, n) ==
  IF n = 0 THEN {<<>>}
  ELSE LET shorter == Listings(S, n - 1)
           longest == {l \in shorter : Len(l) = n - 1}
       IN shorter \cup UNION {{Append(l, x) : x \in {y \in S : ~InList(y, l)}} : l \in longest}

\* os.listdir(path): [raised, names], the names in the order the operating
\* system yields them; OSError when the directory is missing or unreadable.
listdir(fs, path) ==
  IF path \in DOMAIN fs THEN [raised |-> NoException, names |-> fs[path]]
  ELSE [raised |-> OSError, names |-> <<>>]

\* os.pathsep
pathsep(system) == IF system = "Windows" THEN ";" ELSE ":"

\* str.split(sep) for a one-character separator.
RECURSIVE SplitAt(_, _, _, _)
SplitAt(s, sep, i, piece) ==
  IF i > Len(s) THEN <<piece>>
  ELSE IF s[i] = sep THEN <<piece>> \o SplitAt(s, sep, i + 1, <<>>)
  ELSE SplitAt(s, sep, i + 1, Append(piece, s[i]))

split(s, sep) == SplitAt(s, sep, 1, <<>>)

-----------------------------------------------------------------------------
(* Discovery *)

\* The three collections init creates empty (lines 38-40).
EmptyModule == [executables |-> <<>>, info_panels |-> <<>>, context_menus |-> <<>>]

\* A dict with key k set to v.
DictSet(d, k, v) == [x \in DOMAIN d \cup {k} |-> IF x = k THEN v ELSE d[x]]

Bold(s) == <<"<", "b", ">">> \o s \o <<"<", "/", "b", ">">>
Br(s) == <<"<", "b", "r", "/", ">">> \o s

\* AddExecutable that keeps only the first path found under a name.
AddExecutableFirstOnly(m, executable, fullname) ==
  IF ~InList(executable, m.executables)
  THEN [executables |-> Append(m.executables, executable),
        info_panels |-> DictSet(m.info_panels, executable, Bold(html_escape(fullname))),
        context_menus |-> DictSet(m.context_menus, executable, <<fullname>>)]
  ELSE m

\* Lines 81-87: one executable found as fullname.
AddExecutable(m, executable, fullname) ==
  IF ~InList(executable, m.executables)
  THEN [executables |-> Append(m.executables, executable),
        info_panels |-> DictSet(m.info_panels, executable, Bold(html_escape(fullname))),
        context_menus |-> DictSet(m.context_menus, executable, <<fullname>>)]
  ELSE [executables |-> m.executables,
        info_panels |-> DictSet(m.info_panels, executable,
                                m.info_panels[executable] \o Br(html_escape(fullname))),
        context_menus |-> DictSet(m.context_menus, executable,
                                  Append(m.context_menus[executable], fullname))]

\* Lines 72-79: whether the directory entry is taken as an executable.
IsExecutable(system, executable, fullname) ==
  /\ isfile(fullname)
  /\ IF system = "Windows" THEN EndsWith(executable, <<".", "e", "x", "e">>)
     ELSE access_X_OK(fullname)

\* Lines 71-87: the loop over one directory listing.
RECURSIVE ScanListing(_, _, _, _)
ScanListing(m, system, path, listing) ==
  IF listing = <<>> THEN m
  ELSE LET executable == Head(listing)
           fullname == join(path, executable)
       IN ScanListing(IF IsExecutable(system, executable, fullname)
                      THEN AddExecutable(m, executable, fullname) ELSE m,
                      system, path, Tail(listing))

\* Lines 68-89: the loop over the paths; a directory that cannot be listed
\* is passed over.
RECURSIVE ScanPaths(_, _, _, _)
ScanPaths(m, system, fs, paths) ==
  IF paths = <<>> THEN m
  ELSE LET path == expanduser(Head(paths))
           listing == listdir(fs, path)
       IN ScanPaths(IF listing.raised = OSError THEN m
                    ELSE ScanListing(m, system, path, listing.names),
                    system, fs, Tail(paths))

\* get_executables(paths) with paths given: the result is [m, raised].
get_executables(m, system, env, paths) ==
  [m |-> ScanPaths(m, system, env.fs, paths), raised |-> NoException]

\* get_executables() with paths=None: environ['PATH'] raises KeyError when
\* PATH is not set.
get_executables_PATH(m, system, env) ==
  IF "PATH" \notin DOMAIN env.environ THEN [m |-> m, raised |-> KeyError]
  ELSE get_executables(m, system, env, split(env.environ.PATH, pathsep(system)))

\* parse_desktop_entry(path): [raised, app, command].
DeprecatedCodes == {"d", "D", "n", "N", "i", "c", "k", "v", "m"}

parse_desktop_entry(path) ==
  LET parser == DesktopEntry(path) IN
  IF "Name" \notin DOMAIN parser \/ "Exec" \notin DOMAIN parser
  THEN [raised |-> KeyError, app |-> <<>>, command |-> <<>>]
  ELSE [raised |-> NoException, app |-> parser.Name,
        command |-> sub(DeprecatedCodes, <<>>, parser.Exec)]

file_name == <<"<", "f", "i", "l", "e", " ", "n", "a", "m", "e", ">">>
URL == <<"<", "U", "R", "L", ">">>

\* CommandInfo with every file and URL placeholder replaced by its label.
CommandInfoEvery(command) ==
  sub({"u", "U"}, URL, sub({"f", "F"}, file_name, command))

\* Lines 122-126: the first pattern that matches is replaced once.
CommandInfo(command) ==
  LET first == subn({"f", "F"}, file_name, command, 1) IN
  IF first[2] # 0 THEN first[1] ELSE subn({"u", "U"}, URL, command, 1)[1]

\* Lines 128-134: one desktop entry parsed as (app, command).
AddDesktopEntry(m, app, command) ==
  IF ~InList(app, m.executables)
  THEN [executables |-> Append(m.executables, app),
        info_panels |-> DictSet(m.info_panels, app, Bold(html_escape(CommandInfo(command)))),
        context_menus |-> DictSet(m.context_menus, app, <<command>>)]
  ELSE IF ~InList(command, m.context_menus[app])
  THEN [executables |-> m.executables,
        info_panels |-> DictSet(m.info_panels, app,
                                m.info_panels[app] \o Br(html_escape(CommandInfo(command)))),
        context_menus |-> DictSet(m.context_menus, app,
                                  Append(m.context_menus[app], command))]
  ELSE m

\* Lines 113-134: the loop over one applications directory.
RECURSIVE ScanDesktopEntries(_, _, _)
ScanDesktopEntries(m, directory, listing) ==
  IF listing = <<>> THEN m
  ELSE LET parsed == parse_desktop_entry(join(directory, Head(listing))) IN
       ScanDesktopEntries(IF parsed.raised = KeyError THEN m
                          ELSE AddDesktopEntry(m, parsed.app, parsed.command),
                          directory, Tail(listing))

\* Lines 110-136: the loop over the XDG data directories.
RECURSIVE ScanXdg(_, _, _)
ScanXdg(m, fs, xdg_data_dirs) ==
  IF xdg_data_dirs = <<>> THEN m
  ELSE LET directory == join(expanduser(Head(xdg_data_dirs)), applications)
           listing == listdir(fs, directory)
       IN ScanXdg(IF listing.raised = OSError THEN m
                  ELSE ScanDesktopEntries(m, directory, listing.names),
                  fs, Tail(xdg_data_dirs))

\* Lines 96-100: the loop over /Applications.
RECURSIVE ScanApplications(_, _)
ScanApplications(m, listing) ==
  IF listing = <<>> THEN m
  ELSE ScanApplications(
         IF EndsWith(Head(listing), <<".", "a", "p", "p">>)
         THEN [m EXCEPT !.executables = Append(@, RStrip(Head(listing), {".", "a", "p"}))]
         ELSE m,
         Tail(listing))

\* Lines 92-146: discovery up to and including the sort; [m, raised].
Discover(m, system, use_path_, env) ==
  LET found ==
        IF system \in {"Darwin", "Linux", "Windows"} /\ use_path_
        THEN get_executables_PATH(m, system, env)
        ELSE IF system = "Darwin"
        THEN LET listing == listdir(env.fs, dir_Applications) IN
             IF listing.raised = OSError THEN [m |-> m, raised |-> OSError]
             ELSE [m |-> ScanApplications(m, listing.names), raised |-> NoException]
        ELSE IF system = "Linux"
        THEN [m |-> ScanXdg(m, env.fs,
                            IF "XDG_DATA_DIRS" \notin DOMAIN env.environ
                            THEN <<usr_share, usr_local_share>>
                            ELSE split(env.environ.XDG_DATA_DIRS, pathsep(system))),
              raised |-> NoException]
        ELSE IF system = "Windows"
        THEN get_executables(m, system, env, env.products)
        ELSE [m |-> m, raised |-> NoException]
  IN IF found.raised # NoException THEN found
     ELSE [m |-> [found.m EXCEPT !.executables = Sorted(@)], raised |-> NoException]

-----------------------------------------------------------------------------
(* The module and its host *)

VARIABLES
  system,         \* platform.system()
  settings,       \* the settings the host passes to init
  env,            \* os.environ, the installed products, the file system
  pc,             \* "new" before init, "ready" after it, "failed" when it raised
  use_path,       \* self.use_path
  executables,    \* self.executables
  info_panels,    \* self.info_panels
  context_menus,  \* self.context_menus
  q,              \* the outbound queue, every message put so far
  spawned,        \* the commands of the processes Popen has started so far
  selection,      \* the argument of the latest selection_made call
  raised,         \* the exception the latest host call propagated, or None
  calls           \* the number of selection_made calls so far

vars == <<system, settings, env, pc, use_path, executables, info_panels,
          context_menus, q, spawned, selection, raised, calls>>

\* distutils.util.strtobool
strtobool(val) ==
  IF val \in {"y", "yes", "t", "true", "on", "1"} THEN 1
  ELSE IF val \in {"n", "no", "f", "false", "off", "0"} THEN 0
  ELSE ValueError

\* Python's list comparison a < b.
RECURSIVE ListLess(_, _)
ListLess(a, b) ==
  IF b = <<>> THEN FALSE
  ELSE IF a = <<>> THEN TRUE
  ELSE IF a[1] # b[1] THEN a[1] < b[1]
  ELSE ListLess(Tail(a), Tail(b))

\* Line 45: the oldest host API the module supports.
MinApiVersion == <<0, 8, 0>>

\* _set_entries: the four messages put on the queue.
set_entries(system_, use_path_, executables_, info_panels_, context_menus_) ==
  (IF ~use_path_ /\ system_ = "Darwin"
   THEN <<[action |-> "replace_command_list", data |-> <<>>],
          [action |-> "replace_entry_list", data |-> executables_]>>
   ELSE <<[action |-> "replace_command_list", data |-> executables_],
          [action |-> "replace_entry_list", data |-> <<>>]>>)
  \o <<[action |-> "replace_command_info_dict", data |-> info_panels_],
       [action |-> "replace_command_context_dict", data |-> context_menus_]>>

\* Line 36.
UsePathSetting(settings_) ==
  IF "use_path" \notin DOMAIN settings_ THEN FALSE ELSE strtobool(settings_.use_path) = 1

\* Lines 45-46.
VersionCheck(settings_) ==
  IF ListLess(settings_.api_version, MinApiVersion)
  THEN <<[action |-> "critical_error", data |-> "API version is not supported"]>>
  ELSE <<>>

\* init(settings, q) followed by _get_entries() and _set_entries().
init ==
  /\ pc = "new"
  /\ LET up == UsePathSetting(settings)
         found == Discover(EmptyModule, system, up, env)
     IN /\ use_path' = up
        /\ executables' = found.m.executables
        /\ info_panels' = found.m.info_panels
        /\ context_menus' = found.m.context_menus
        /\ raised' = found.raised
        /\ IF found.raised = NoException
           THEN /\ q' = q \o VersionCheck(settings)
                          \o set_entries(system, up, found.m.executables,
                                         found.m.info_panels, found.m.context_menus)
                /\ pc' = "ready"
           ELSE /\ q' = q \o VersionCheck(settings)
                /\ pc' = "failed"
  /\ UNCHANGED <<system, settings, env, spawned, selection, calls>>

\* The truth value of a string or None.
Truthy(x) == x # None /\ x # <<>>

\* The result of building the argument of Popen: [raised, command], the
\* exception raised before Popen is reached or the argument list.  Popen takes
\* a lone string as the one-element list of it.
Raise(exception) == [raised |-> exception, command |-> <<>>]
Argv(command) == [raised |-> NoException, command |-> command]

\* ChosenCommand that passes over the context option.
ChosenCommandDefault(item) ==
  IF item.value \notin DOMAIN context_menus
  THEN [raised |-> KeyError, target |-> <<>>]
  ELSE [raised |-> NoException, target |-> context_menus[item.value][1]]

\* Lines 167-168: the invocation target of the selected item; [raised, target].
ChosenCommand(item) ==
  IF Truthy(item.context_option)
  THEN [raised |-> NoException, target |-> item.context_option]
  ELSE IF item.value \notin DOMAIN context_menus
  THEN [raised |-> KeyError, target |-> <<>>]
  ELSE [raised |-> NoException, target |-> context_menus[item.value][1]]

\* Lines 171-187: the argument of Popen for the target and the arguments.
Launch(command, args) ==
  IF ~use_path /\ system = "Darwin"
  THEN IF Truthy(args)
       THEN IF shlex_split(args).raised # NoException THEN Raise(ValueError)
            ELSE Argv(<<<<"o", "p", "e", "n">>, <<"-", "a">>, shlex_quote(command),
                        <<"-", "-", "a", "r", "g", "s">>>> \o shlex_split(args).tokens)
       ELSE Argv(<<<<"o", "p", "e", "n">>, <<"-", "a">>, shlex_quote(command)>>)
  ELSE IF ~use_path /\ system = "Linux"
  THEN LET argv == shlex_split(sub({"f", "F", "u", "U"},
                                   IF Truthy(args) THEN shlex_quote(args) ELSE args,
                                   command))
       IN IF argv.raised # NoException THEN Raise(ValueError) ELSE Argv(argv.tokens)
  ELSE IF Truthy(args)
       THEN IF shlex_split(args).raised # NoException THEN Raise(ValueError)
            ELSE Argv(<<command>> \o shlex_split(args).tokens)
       ELSE Argv(<<command>>)

\* Lines 167-187.
Command(item) ==
  LET chosen == ChosenCommand(item) IN
  IF chosen.raised # NoException THEN Raise(chosen.raised)
  ELSE Launch(chosen.target, item.args)

\* PutClose whatever Popen did.
PutCloseAlways(outcome) == <<[action |-> "close", data |-> None]>>

\* Line 189, reached when Popen returned.
PutClose(outcome) ==
  IF outcome = NoException THEN <<[action |-> "close", data |-> None]>> ELSE <<>>

\* EmptySelection with the sources enumerated again.
EmptySelectionRescan ==
  LET found == Discover(EmptyModule, system, use_path, env).m IN
  set_entries(system, use_path, found.executables, found.info_panels,
              found.context_menus)

\* Lines 164-165: what an empty selection puts on the queue.
EmptySelection ==
  set_entries(system, use_path, executables, info_panels, context_menus)

\* Whether the operating system can start the process: Popen raises
\* IndexError on an empty argument list, and the operating system may refuse
\* any other command with OSError.
PopenOutcomes(command) == IF command = <<>> THEN {IndexError} ELSE {NoException, OSError}

\* What the host may select: one of the entries it was sent, with one of the
\* context options it was sent for that entry or none, and typed arguments.
Args == {<<>>, <<"x", " ", "y">>}

Entries ==
  {[value |-> executables[i], context_option |-> None, args |-> <<>>] :
     i \in 1..Len(executables)}

Items ==
  {[value |-> executables[i], context_option |-> None, args |-> a] :
     i \in 1..Len(executables), a \in Args}
  \cup
  UNION {{[value |-> v, context_option |-> context_menus[v][j], args |-> a] :
            j \in 1..Len(context_menus[v]), a \in Args} : v \in DOMAIN context_menus}

Selections ==
  {<<>>} \cup {<<i>> : i \in Items} \cup {<<i, j>> : i \in Entries, j \in Entries}

\* selection_made(selection)
selection_made ==
  /\ pc = "ready"
  /\ calls < MaxCalls
  /\ \E sel \in Selections :
       /\ selection' = sel
       /\ calls' = calls + 1
       /\ IF Len(sel) = 0
          THEN /\ q' = q \o EmptySelection
               /\ raised' = NoException
               /\ UNCHANGED spawned
          ELSE IF Len(sel) = 1
          THEN LET built == Command(sel[1]) IN
               IF built.raised # NoException
               THEN /\ raised' = built.raised
                    /\ UNCHANGED <<q, spawned>>
               ELSE \E outcome \in PopenOutcomes(built.command) :
                      /\ raised' = outcome
                      /\ spawned' = IF outcome = NoException
                                    THEN Append(spawned, built.command) ELSE spawned
                      /\ q' = q \o PutClose(outcome)
          ELSE /\ raised' = NoException
               /\ UNCHANGED <<q, spawned>>
  /\ UNCHANGED <<system, settings, env, pc, use_path, executables, info_panels,
                 context_menus>>

\* stop()
stop ==
  /\ pc = "ready"
  /\ UNCHANGED vars

\* process_response(response)
process_response ==
  /\ pc = "ready"
  /\ UNCHANGED vars

\* The file system changes under the running module: a directory is removed
\* with all it holds.
rmtree ==
  /\ pc = "ready"
  /\ \E d \in DOMAIN env.fs :
       env' = [env EXCEPT !.fs = [x \in DOMAIN env.fs \ {d} |-> env.fs[x]]]
  /\ UNCHANGED <<system, settings, pc, use_path, executables, info_panels,
                 context_menus, q, spawned, selection, raised, calls>>

-----------------------------------------------------------------------------
(* Initial states *)

dir_usr_applications == join(usr_share, applications)
dir_h_applications == join(HOME, applications)

\* A directory d that is missing, or holds one of the listings.
Dirs(d, listings) == {<<>>} \cup {d :> l : l \in listings}

BinDirs(d) == Dirs(d, Listings({ls, vi_exe, lib}, MaxListing))
DesktopDirs(d) == Dirs(d, Listings({a_desktop, c_desktop, k_desktop}, MaxListing))
BundleDirs == Dirs(dir_Applications, Listings({Pap_app, Papa_app, a_txt}, MaxBundles))

\* ''.join of the strings with the separator between them.
RECURSIVE Joined(_, _)
Joined(list, sep) ==
  IF list = <<>> THEN <<>>
  ELSE IF Len(list) = 1 THEN list[1]
  ELSE list[1] \o <<sep>> \o Joined(Tail(list), sep)

\* The values of a search path variable over the directory names: the empty
\* string, one name, or several in any order.
SearchPaths(names, sep) ==
  {Joined(l, sep) : l \in Listings(names, Cardinality(names))}

\* os.environ with the variable set to one of the values, or not set.
Environ(var, values) == {<<>>} \cup {var :> v : v \in values}

DirNames == {dir_b, dir_tilde}
XdgNames == {usr_share, dir_tilde}

\* What the platform-native discovery of the system would read.
NativeFs(system_) ==
  IF system_ = "Darwin" THEN dir_Applications :> <<Pap_app>>
  ELSE IF system_ = "Linux" THEN dir_usr_applications :> <<a_desktop>>
  ELSE <<>>

\* Environments that differ in what a scan of PATH reads.
PathEnvs(system_) ==
  {[environ |-> e, products |-> <<dir_b>>, fs |-> b @@ h @@ NativeFs(system_)] :
     e \in Environ("PATH", SearchPaths(DirNames, pathsep(system_))),
     b \in BinDirs(dir_b), h \in Dirs(dir_h, {<<ls>>})}

\* Environments that differ in what a scan of the installed products reads.
ProductEnvs ==
  {[environ |-> "PATH" :> dir_b, products |-> w, fs |-> b @@ h] :
     w \in Listings(DirNames, Cardinality(DirNames)),
     b \in BinDirs(dir_b), h \in Dirs(dir_h, {<<ls>>})}

\* Environments that differ in what the listing of /Applications reads.
BundleEnvs ==
  {[environ |-> "PATH" :> dir_b, products |-> <<>>, fs |-> apps @@ (dir_b :> <<ls>>)] :
     apps \in BundleDirs}

\* Environments that differ in what the scan of the XDG data directories reads.
DesktopEnvs ==
  {[environ |-> e @@ ("PATH" :> dir_b), products |-> <<>>,
    fs |-> usr @@ home @@ (dir_b :> <<ls>>)] :
     e \in Environ("XDG_DATA_DIRS", SearchPaths(XdgNames, pathsep("Linux"))),
     usr \in DesktopDirs(dir_usr_applications),
     home \in Dirs(dir_h_applications, {<<a_desktop>>})}

\* One environment in which every source of the system holds an entry.
PlainEnv(system_) ==
  [environ |-> "PATH" :> dir_b, products |-> <<dir_b>>,
   fs |-> (dir_b :> <<ls>>) @@ NativeFs(system_)]

\* The environments init is run in, by what the settings make it read.
Envs(system_, settings_) ==
  IF UsePathSetting(settings_) THEN PathEnvs(system_)
  ELSE IF "use_path" \in DOMAIN settings_ \/ system_ \notin {"Darwin", "Linux", "Windows"}
  THEN {PlainEnv(system_)}
  ELSE IF system_ = "Darwin" THEN BundleEnvs
  ELSE IF system_ = "Linux" THEN DesktopEnvs
  ELSE ProductEnvs

ApiVersions == {<<0, 7, 9>>, <<0, 8, 0>>}

Init ==
  /\ system \in Systems
  /\ settings \in [api_version : ApiVersions]
                  \cup [api_version : ApiVersions, use_path : {"true", "false"}]
  /\ env \in Envs(system, settings)
  /\ pc = "new"
  /\ use_path = FALSE
  /\ executables = <<>>
  /\ info_panels = <<>>
  /\ context_menus = <<>>
  /\ q = <<>>
  /\ spawned = <<>>
  /\ selection = <<>>
  /\ raised = NoException
  /\ calls = 0

Next == init \/ selection_made \/ stop \/ process_response \/ rmtree

Spec == Init /\ [][Next]_vars

-----------------------------------------------------------------------------
(* Properties *)

NoDuplicates(list) ==
  \A i, j \in 1..Len(list) : list[i] = list[j] => i = j

Last(list) == list[Len(list)]

\* The latest host call was selection_made with one selected item.
SingleSelection == calls > 0 /\ Len(selection) = 1

\* The latest host call started a process.
Spawned == SingleSelection /\ raised = NoException

\* C1: after init the display names hold no duplicate, and every display name
\* has a context list that holds its invocation targets, each once.
C1_UniqueNamesWithTargets ==
  pc = "ready" =>
    /\ NoDuplicates(executables)
    /\ \A i \in 1..Len(executables) :
         /\ executables[i] \in DOMAIN context_menus
         /\ context_menus[executables[i]] # <<>>
         /\ NoDuplicates(context_menus[executables[i]])

\* t is a substring of s.
Contains(s, t) ==
  \E i \in 0..(Len(s) - Len(t)) : SubSeq(s, i + 1, i + Len(t)) = t

\* The invocation target the latest single selection names: its context
\* option, or else the first target recorded for its entry.
Target ==
  IF selection[1].context_option # None THEN selection[1].context_option
  ELSE context_menus[selection[1].value][1]

\* The desktop entries were scanned.
DesktopScan == pc = "ready" /\ ~use_path /\ system = "Linux"

app_bin == <<"a", "p", "p", ".", "b", "i", "n">>
x_y == <<"x", " ", "y">>

\* app.bin &lt;file name&gt; %u
Info_f_only ==
  <<"a", "p", "p", ".", "b", "i", "n", " ", "&", "l", "t", ";", "f", "i", "l", "e",
    " ", "n", "a", "m", "e", "&", "g", "t", ";", " ", "%", "u">>

\* app.bin &lt;file name&gt; &lt;URL&gt;
Info_f_and_u ==
  <<"a", "p", "p", ".", "b", "i", "n", " ", "&", "l", "t", ";", "f", "i", "l", "e",
    " ", "n", "a", "m", "e", "&", "g", "t", ";", " ", "&", "l", "t", ";", "U", "R",
    "L", "&", "g", "t", ";">>

\* The command recorded for Exec=run %%f %i, the deprecated %i removed.
Run_literal == <<"r", "u", "n", " ", "%", "%", "f", " ">>

\* What is launched for Exec=app.bin %f %u and for Exec=run %%f %i.
LaunchOfExamples ==
  /\ Spawned /\ Target = Exec_a =>
       Last(spawned) = IF selection[1].args = <<>> THEN <<app_bin>>
                       ELSE <<app_bin, selection[1].args, selection[1].args>>
  /\ Spawned /\ Target = Run_literal =>
       Last(spawned) = <<<<"r", "u", "n">>, <<"%", "%", "f">>>>

\* C2, as claimed: the description of Exec=app.bin %f %u has both %f and %u
\* replaced by their labels, a launch with an argument puts the argument in
\* the place of both, and a literal %%f stays as written in the description
\* and in the launched command.
C2_BothPlaceholdersLabelled ==
  DesktopScan /\ App \in DOMAIN context_menus =>
    /\ InList(Exec_a, context_menus[App]) => Contains(info_panels[App], Info_f_and_u)
    /\ InList(Run_literal, context_menus[App]) => Contains(info_panels[App], Run_literal)
    /\ LaunchOfExamples

\* C2, amended: the description of Exec=app.bin %f %u has the %f replaced by
\* its label and the %u left as written; a launch with an argument puts the
\* argument, as one word, in the place of both; a literal %%f stays as written
\* in the description and in the launched command.
C2_FirstPlaceholderLabelled ==
  DesktopScan /\ App \in DOMAIN context_menus =>
    /\ InList(Exec_a, context_menus[App]) =>
         /\ Contains(info_panels[App], Info_f_only)
         /\ ~Contains(info_panels[App], Info_f_and_u)
    /\ InList(Run_literal, context_menus[App]) => Contains(info_panels[App], Run_literal)
    /\ LaunchOfExamples

\* C2: app.bin %f %u was launched with the argument "x y".
C2_LaunchedWithArgument ==
  /\ DesktopScan
  /\ Spawned
  /\ Target = Exec_a
  /\ selection[1].args = x_y
  /\ Last(spawned) = <<app_bin, x_y, x_y>>

\* The elements of a list.
Elements(list) == {list[i] : i \in 1..Len(list)}

\* The names of the executables in the directories of PATH.
PathExecutables ==
  IF "PATH" \notin DOMAIN env.environ THEN {}
  ELSE UNION {LET path == expanduser(directory) IN
              IF path \notin DOMAIN env.fs THEN {}
              ELSE {name \in Elements(env.fs[path]) :
                      IsExecutable(system, name, join(path, name))} :
              directory \in Elements(split(env.environ.PATH, pathsep(system)))}

\* The step is the call of init.
InitCall == pc = "new" /\ pc' # "new"

\* C3: whatever the system, init with use_path set to true leaves as entries
\* exactly the executables of the directories of PATH.
C3_PathScanOnEverySystem ==
  [][InitCall /\ UsePathSetting(settings) => Elements(executables') = PathExecutables]_vars

\* The latest host call selected one emitted entry, with no context option
\* and no arguments.
PlainSelection ==
  /\ SingleSelection
  /\ InList(selection[1].value, executables)
  /\ selection[1].context_option = None
  /\ selection[1].args = <<>>

\* C4: selecting an emitted entry with no context option and no arguments
\* raises no error of the module's own, in every discovery mode: the call
\* returns, or the operating system refuses the process.
C4_PlainSelectionLaunches ==
  PlainSelection => raised \in {NoException, OSError}

\* C6: init returns in every environment: a directory that is missing is
\* passed over and a search path that is empty or not set yields no entry.
C6_InitReturns ==
  pc # "failed"

\* The messages of the queue with the action.
Messages(action) == {i \in 1..Len(q) : q[i].action = action}

ListActions ==
  {"replace_command_list", "replace_entry_list", "replace_command_info_dict",
   "replace_command_context_dict"}

\* C7: after init with an API version below 0.8.0 the queue holds one
\* critical_error message, before every list message, and the lists that
\* discovery found; with a supported version it never holds a critical_error.
C7_VersionReportedDiscoveryCompletes ==
  pc # "new" =>
    IF ListLess(settings.api_version, <<0, 8, 0>>)
    THEN /\ Messages("critical_error") = {1}
         /\ pc = "ready"
         /\ \A a \in ListActions : Messages(a) # {}
    ELSE Messages("critical_error") = {}

\* The step is a call of selection_made.
SelectionCall == calls' = calls + 1

\* The lists a discovery run now would put on the queue.
ListsOfRescan ==
  LET found == Discover(EmptyModule, system, use_path, env).m IN
  <<[action |-> "replace_command_list",
     data |-> IF ~use_path /\ system = "Darwin" THEN <<>> ELSE found.executables],
    [action |-> "replace_entry_list",
     data |-> IF ~use_path /\ system = "Darwin" THEN found.executables ELSE <<>>],
    [action |-> "replace_command_info_dict", data |-> found.info_panels],
    [action |-> "replace_command_context_dict", data |-> found.context_menus]>>

\* The messages init put on the queue after its version check.
ListsOfInit ==
  LET first == Cardinality(Messages("critical_error")) + 1 IN
  SubSeq(q, first, first + 3)

\* C5, as claimed: a call with an empty selection puts on the queue what the
\* discovery sources hold at the time of the call.
C5_EmptySelectionRescans ==
  [][SelectionCall /\ Len(selection') = 0 =>
       SubSeq(q', Len(q) + 1, Len(q')) = ListsOfRescan]_vars

\* C5, amended: a call with an empty selection enumerates nothing again: it
\* puts on the queue the lists init found, whatever the file system holds by
\* then.
C5_EmptySelectionRepeatsInit ==
  calls > 0 /\ Len(selection) = 0 =>
    /\ Len(q) >= 8
    /\ SubSeq(q, Len(q) - 3, Len(q)) = ListsOfInit

\* C5: an empty selection was made after the file system changed under the
\* entries init found.
C5_RepeatedOverChangedFiles ==
  /\ calls > 0
  /\ Len(selection) = 0
  /\ ListsOfRescan # ListsOfInit

\* The directories init reads, in the order it reads them.
ScannedDirectories ==
  LET expanded(list) == [i \in 1..Len(list) |-> expanduser(list[i])] IN
  IF UsePathSetting(settings) /\ system \in {"Darwin", "Linux", "Windows"}
  THEN IF "PATH" \in DOMAIN env.environ
       THEN expanded(split(env.environ.PATH, pathsep(system))) ELSE <<>>
  ELSE IF system = "Windows" THEN expanded(env.products)
  ELSE IF system = "Darwin" THEN <<dir_Applications>>
  ELSE IF system = "Linux"
  THEN LET dirs == IF "XDG_DATA_DIRS" \in DOMAIN env.environ
                   THEN expanded(split(env.environ.XDG_DATA_DIRS, pathsep(system)))
                   ELSE <<usr_share, usr_local_share>>
       IN [i \in 1..Len(dirs) |-> join(dirs[i], applications)]
  ELSE <<>>

\* Init reads desktop entries.
ReadsDesktopEntries == ~UsePathSetting(settings) /\ system = "Linux"

\* The launchable things a directory holds, in the order it lists them:
\* desktop entries with both keys, application bundles, executable files.
LaunchablesIn(directory) ==
  LET IsEntry(f) == parse_desktop_entry(join(directory, f)).raised = NoException
      IsBundle(f) == EndsWith(f, <<".", "a", "p", "p">>)
      IsProgram(f) == IsExecutable(system, f, join(directory, f))
  IN IF directory \notin DOMAIN env.fs THEN <<>>
     ELSE IF ReadsDesktopEntries THEN SelectSeq(env.fs[directory], IsEntry)
     ELSE IF ~UsePathSetting(settings) /\ system = "Darwin"
     THEN SelectSeq(env.fs[directory], IsBundle)
     ELSE SelectSeq(env.fs[directory], IsProgram)

\* The names of the launchable things found, in the order init finds them: the
\* Name key of a desktop entry, the file name of a bundle or an executable.
FoundNames ==
  Concat([i \in 1..Len(ScannedDirectories) |->
            LET directory == ScannedDirectories[i]
                found == LaunchablesIn(directory)
            IN [k \in 1..Len(found) |->
                  IF ReadsDesktopEntries
                  THEN parse_desktop_entry(join(directory, found[k])).app
                  ELSE found[k]]])

\* The commands of the desktop entries found under the name.
FoundCommands(name) ==
  UNION {LET directory == ScannedDirectories[i] IN
         {parse_desktop_entry(join(directory, f)).command :
            f \in {g \in Elements(LaunchablesIn(directory)) :
                     parse_desktop_entry(join(directory, g)).app = name}} :
         i \in 1..Len(ScannedDirectories)}

\* The positions of FoundNames whose name was found before.
Collisions == {i \in 1..Len(FoundNames) : \E j \in 1..(i - 1) : FoundNames[j] = FoundNames[i]}

CollidingNames == {FoundNames[i] : i \in Collisions}

\* The step is a call of init that returns.
InitReturns == pc = "new" /\ pc' = "ready"

Words(s) ==
  LET NonEmpty(piece) == piece # <<>> IN SelectSeq(split(s, " "), NonEmpty)

Placeholders == {<<"%", "f">>, <<"%", "F">>, <<"%", "u">>, <<"%", "U">>}

\* The arguments of the latest single selection.
Arguments == selection[1].args

\* The applications of macOS were listed.
BundleScan == pc = "ready" /\ ~use_path /\ system = "Darwin"

\* The target, then the words of the arguments; on macOS behind open -a, the
\* arguments behind --args.
TargetThenArguments(targetWords) ==
  IF BundleScan
  THEN <<<<"o", "p", "e", "n">>, <<"-", "a">>>> \o targetWords
       \o (IF Arguments # <<>> THEN <<<<"-", "-", "a", "r", "g", "s">>>> ELSE <<>>)
       \o Words(Arguments)
  ELSE targetWords \o Words(Arguments)

\* The words of a desktop entry command with every placeholder word dropped.
WordsWithoutPlaceholders(command) ==
  LET Kept(word) == word \notin Placeholders IN SelectSeq(Words(command), Kept)

\* The words of a desktop entry command with every placeholder word replaced
\* by the arguments as one word, or dropped when there are none.
WordsWithArguments(command) ==
  LET words == Words(command) IN
  Concat([i \in 1..Len(words) |->
            IF words[i] \notin Placeholders THEN <<words[i]>>
            ELSE IF Arguments # <<>> THEN <<Arguments>> ELSE <<>>])

Closes(queue) == {i \in 1..Len(queue) : queue[i].action = "close"}

\* C10: a call of selection_made starts at most one process, and only for a
\* single selected item; it puts a close message only as its last step after
\* the process started; a call that raises puts nothing on the queue, starts
\* nothing and leaves the entries, info panels and context menus as they
\* were; a call with two or more items starts nothing and puts nothing.
C10_OneSpawnThenClose ==
  [][SelectionCall =>
       /\ \/ spawned' = spawned
          \/ /\ Len(spawned') = Len(spawned) + 1
             /\ SubSeq(spawned', 1, Len(spawned)) = spawned
             /\ Len(selection') = 1
       /\ \/ Closes(q') = Closes(q)
          \/ /\ spawned' # spawned
             /\ q' = Append(q, [action |-> "close", data |-> None])
       /\ spawned' # spawned => Closes(q') # Closes(q)
       /\ raised' # NoException => q' = q /\ spawned' = spawned
       /\ Len(selection') >= 2 => q' = q /\ spawned' = spawned /\ raised' = NoException
       /\ Len(selection') = 1 /\ spawned' = spawned => raised' # NoException
       /\ <<executables', info_panels', context_menus'>>
            = <<executables, info_panels, context_menus>>]_vars

\* C10: the operating system refused the process of the second call, after
\* the first call had started one.
C10_SpawnRefused ==
  /\ calls = 2
  /\ Len(selection) = 1
  /\ raised = OSError
  /\ Len(spawned) = 1
  /\ Cardinality(Closes(q)) = 1

=============================================================================
